---- MODULE Spec2Model ----
(***************************************************************************)
(* AstroChart, project/src/aspect.ts: the AspectCalculator class.          *)
(*                                                                         *)
(* Numbers.  Every angle, orbit and precision is a fixed-point number      *)
(* counted in units of 0.00001 degree (Deg(1) = 100000 units), one decimal *)
(* digit finer than the four fractional digits toFixed(4) keeps, so that   *)
(* the rounding of toFixed(4) is visible.  Arithmetic on these values is   *)
(* exact; aspect.orbit / 2 is never rounded: a comparison with it is       *)
(* written on doubled values (d - o/2 <= g  iff  2d - o <= 2g).            *)
(*                                                                         *)
(* Objects.  A Points object {name: [position, speed?]} is the sequence of *)
(* its entries in for-in order, the names distinct; null/undefined is Null.*)
(* The ASPECTS catalog is the sequence of its entries in for-in order.     *)
(* A decimal string made by toFixed(4) is its sign and its digits with the *)
(* decimal point removed: "-4.0001" is [neg |-> TRUE, digits |-> 40001].   *)
(***************************************************************************)
EXTENDS Integers, Sequences, FiniteSets

VARIABLES
    toPointsArg,    \* constructor argument toPoints (or Null)
    settingsArg,    \* constructor argument settings (or absent)
    points,         \* the argument the caller passes to radix / transit (or Null)
    constructed,    \* an AspectCalculator instance exists
    toPoints,       \* this.toPoints
    settings,       \* this.settings
    op,             \* the last operation that ran
    threw,          \* the last operation ended with a thrown Error
    result,         \* the value the last radix / transit returned
    fnArgs,         \* arguments of a direct call of hasAspect / calcPrecision / isTransitPointApproachingToAspect
    resBool,        \* boolean returned by hasAspect / isTransitPointApproachingToAspect
    resNum          \* number returned by calcPrecision

vars == <<toPointsArg, settingsArg, points, constructed, toPoints, settings,
          op, threw, result, fnArgs, resBool, resNum>>

---------------------------------------------------------------------------
(* Numbers *)

Deg(n) == n * 100000

Abs(x) == IF x < 0 THEN -x ELSE x

\* radiansToDegree(Math.PI) and radiansToDegree(2 * Math.PI), from ./utils
radiansToDegreePI == Deg(180)
radiansToDegree2PI == Deg(360)

\* JavaScript's %: the result takes the sign of the dividend
JsRem(a, m) == IF a >= 0 THEN a % m ELSE -((-a) % m)

\* Number.prototype.toFixed(4): -0 prints without a sign, a negative number
\* prints "-" and the rounding of its absolute value (half away from zero)
toFixed4(x) == [neg |-> x < 0, digits |-> (Abs(x) + 5) \div 10]

\* parseFloat of such a string, in units of 0.0001 degree
parseFloat(s) == IF s.neg THEN -s.digits ELSE s.digits

---------------------------------------------------------------------------
(* Values *)

Null == [nil |-> TRUE, entries |-> <<>>]
Some(s) == [nil |-> FALSE, entries |-> s]

Pt(n, pos) == [name |-> n, position |-> pos, hasSpeed |-> FALSE, speed |-> 0]
PtS(n, pos, sp) == [name |-> n, position |-> pos, hasSpeed |-> TRUE, speed |-> sp]

Asp(n, d, o, c, l) == [name |-> n, degree |-> d, orbit |-> o, color |-> c, lineStyle |-> l]

DEFAULT_ASPECTS ==
    << Asp("opposition", Deg(180), Deg(10), "#ff0000", "solid"),
       Asp("square", Deg(90), Deg(8), "#ff0000", "short"),
       Asp("trine", Deg(120), Deg(8), "#0000ff", "solid"),
       Asp("sextile", Deg(60), Deg(8), "#0000ff", "short"),
       Asp("quincunx", Deg(150), Deg(8), "#00ff00", "5,5"),
       Asp("semisextile", Deg(30), Deg(8), "#00ff00", "2,2"),
       Asp("semisquare", Deg(45), Deg(8), "#0000ff", "1,1"),
       Asp("sesquisquare", Deg(135), Deg(8), "#0000ff", "6,2"),
       Asp("conjunction", Deg(0), Deg(10), "transparent", "dashed") >>

---------------------------------------------------------------------------
(* The geometry helpers *)

\* let gap = Math.abs(point - toPoint); if (gap > 180) gap = 360 - gap
gap(point, toPoint) ==
    LET g == Abs(point - toPoint)
    IN  IF g > radiansToDegreePI THEN radiansToDegree2PI - g ELSE g

hasAspectStrictMax(point, toPoint, aspect) ==
    LET g == gap(point, toPoint)
    IN  2 * aspect.degree - aspect.orbit <= 2 * g
        /\ 2 * g < 2 * aspect.degree + aspect.orbit

hasAspectOrbitAsRadius(point, toPoint, aspect) ==
    LET g == gap(point, toPoint)
    IN  aspect.degree - aspect.orbit <= g /\ g <= aspect.degree + aspect.orbit

hasAspect(point, toPoint, aspect) ==
    LET g == gap(point, toPoint)
    IN  2 * aspect.degree - aspect.orbit <= 2 * g
        /\ 2 * g <= 2 * aspect.degree + aspect.orbit

calcPrecision(point, toPoint, aspect) == Abs(gap(point, toPoint) - aspect)

isTransitPointApproachingToAspectNoSwap(aspect, toPoint, point) ==
    LET adv == IF point - toPoint > 0
               THEN IF point - toPoint > radiansToDegreePI
                    THEN <<JsRem(point + aspect, radiansToDegree2PI), toPoint>>
                    ELSE <<point, JsRem(toPoint + aspect, radiansToDegree2PI)>>
               ELSE IF toPoint - point > radiansToDegreePI
                    THEN <<point, JsRem(toPoint + aspect, radiansToDegree2PI)>>
                    ELSE <<JsRem(point + aspect, radiansToDegree2PI), toPoint>>
    IN  adv[1] - adv[2] < 0

isTransitPointApproachingToAspect(aspect, toPoint, point) ==
    LET adv == IF point - toPoint > 0
               THEN IF point - toPoint > radiansToDegreePI
                    THEN <<JsRem(point + aspect, radiansToDegree2PI), toPoint>>
                    ELSE <<point, JsRem(toPoint + aspect, radiansToDegree2PI)>>
               ELSE IF toPoint - point > radiansToDegreePI
                    THEN <<point, JsRem(toPoint + aspect, radiansToDegree2PI)>>
                    ELSE <<JsRem(point + aspect, radiansToDegree2PI), toPoint>>
        p1 == adv[1]
        t1 == adv[2]
        difference == p1 - t1
        _point == IF Abs(difference) > radiansToDegreePI THEN t1 ELSE p1
        _toPoint == IF Abs(difference) > radiansToDegreePI THEN p1 ELSE t1
    IN  _point - _toPoint < 0

compareAspectsByPrecisionReversed(a, b) == parseFloat(b.precision) - parseFloat(a.precision)

compareAspectsByPrecision(a, b) == parseFloat(a.precision) - parseFloat(b.precision)

\* Array.prototype.sort with the comparator: a stable sort
RECURSIVE insert(_, _)
insert(sorted, x) ==
    IF sorted = <<>> THEN <<x>>
    ELSE IF compareAspectsByPrecision(sorted[Len(sorted)], x) <= 0
         THEN Append(sorted, x)
         ELSE Append(insert(SubSeq(sorted, 1, Len(sorted) - 1), x), sorted[Len(sorted)])

RECURSIVE sortFrom(_, _, _)
sortFrom(acc, s, i) ==
    IF i > Len(s) THEN acc ELSE sortFrom(insert(acc, s[i]), s, i + 1)

sort(s) == sortFrom(<<>>, s, 1)

---------------------------------------------------------------------------
(* The class *)

NoSettings == [nil |-> TRUE, hasASPECTS |-> FALSE, ASPECTS |-> <<>>]
EmptySettings == [nil |-> FALSE, hasASPECTS |-> FALSE, ASPECTS |-> <<>>]
SettingsWith(cat) == [nil |-> FALSE, hasASPECTS |-> TRUE, ASPECTS |-> cat]

constructorNoCheck(toPointsA, settingsA) ==
    [ threw |-> FALSE,
      toPoints |-> toPointsA,
      settings |-> SettingsWith(IF ~settingsA.nil /\ settingsA.hasASPECTS
                                THEN settingsA.ASPECTS ELSE DEFAULT_ASPECTS) ]

\* new AspectCalculator(toPoints, settings): what it throws, or the fields it sets
constructor(toPointsA, settingsA) ==
    IF toPointsA.nil
    THEN [ threw |-> TRUE, toPoints |-> Null, settings |-> NoSettings ]
    ELSE [ threw |-> FALSE,
           toPoints |-> toPointsA,
           settings |-> SettingsWith(IF ~settingsA.nil /\ settingsA.hasASPECTS
                                     THEN settingsA.ASPECTS ELSE DEFAULT_ASPECTS) ]

\* the (point, toPoint, aspect) triples in the order the three nested for-in loops visit them
loopOrder(np, nt, na) ==
    [ n \in 1..(np * nt * na) |->
        << ((n - 1) \div (nt * na)) + 1, (((n - 1) \div na) % nt) + 1, ((n - 1) % na) + 1 >> ]

aspectOf(a) ==
    [name |-> a.name, degree |-> a.degree, orbit |-> a.orbit, color |-> a.color, lineStyle |-> a.lineStyle]

\* the record radix pushes
radixRecord(p, t, a) ==
    [ aspect |-> aspectOf(a),
      point |-> [name |-> p.name, position |-> p.position],
      toPoint |-> [name |-> t.name, position |-> t.position],
      precision |-> toFixed4(calcPrecision(p.position, t.position, a.degree)) ]

radixLoopNoNameCheck(pts, tps, A) ==
    LET Match(t) == hasAspect(pts[t[1]].position, tps[t[2]].position, A[t[3]])
        hits == SelectSeq(loopOrder(Len(pts), Len(tps), Len(A)), Match)
    IN  [ n \in 1..Len(hits) |-> radixRecord(pts[hits[n][1]], tps[hits[n][2]], A[hits[n][3]]) ]

\* the array `aspects` of radix when its loops end
radixLoop(pts, tps, A) ==
    LET Match(t) == /\ pts[t[1]].name # tps[t[2]].name
                    /\ hasAspect(pts[t[1]].position, tps[t[2]].position, A[t[3]])
        hits == SelectSeq(loopOrder(Len(pts), Len(tps), Len(A)), Match)
    IN  [ n \in 1..Len(hits) |-> radixRecord(pts[hits[n][1]], tps[hits[n][2]], A[hits[n][3]]) ]

radix(pointsA, tps, A) ==
    IF pointsA.nil THEN Some(<<>>)
    ELSE Some(sort(radixLoop(pointsA.entries, tps, A)))

transitPrecisionNoRetrograde(p, t, a) ==
    LET precision == calcPrecision(p.position, t.position, a.degree)
    IN  IF isTransitPointApproachingToAspect(a.degree, t.position, p.position)
        THEN precision * (-1) ELSE precision

\* the value of `precision` of transit when it is pushed
transitPrecision(p, t, a) ==
    LET precision0 == calcPrecision(p.position, t.position, a.degree)
        precision1 == IF isTransitPointApproachingToAspect(a.degree, t.position, p.position)
                      THEN precision0 * (-1) ELSE precision0
    IN  IF p.hasSpeed /\ p.speed # 0 /\ p.speed < 0
        THEN precision1 * (-1) ELSE precision1

\* the record transit pushes
transitRecord(p, t, a) ==
    [ aspect |-> aspectOf(a),
      point |-> [name |-> p.name, position |-> p.position],
      toPoint |-> [name |-> t.name, position |-> t.position],
      precision |-> toFixed4(transitPrecision(p, t, a)) ]

transitLoopNameCheck(pts, tps, A) ==
    LET Match(t) == /\ pts[t[1]].name # tps[t[2]].name
                    /\ hasAspect(pts[t[1]].position, tps[t[2]].position, A[t[3]])
        hits == SelectSeq(loopOrder(Len(pts), Len(tps), Len(A)), Match)
    IN  [ n \in 1..Len(hits) |-> transitRecord(pts[hits[n][1]], tps[hits[n][2]], A[hits[n][3]]) ]

\* the array `aspects` of transit when its loops end
transitLoop(pts, tps, A) ==
    LET Match(t) == hasAspect(pts[t[1]].position, tps[t[2]].position, A[t[3]])
        hits == SelectSeq(loopOrder(Len(pts), Len(tps), Len(A)), Match)
    IN  [ n \in 1..Len(hits) |-> transitRecord(pts[hits[n][1]], tps[hits[n][2]], A[hits[n][3]]) ]

transit(pointsA, tps, A) ==
    IF pointsA.nil THEN Some(<<>>)
    ELSE Some(sort(transitLoop(pointsA.entries, tps, A)))

---------------------------------------------------------------------------
(* Inputs *)

MaxPoints == 2

\* the Points objects with at most MaxPoints entries drawn from pool
PointsOver(pool) ==
    { s \in UNION { [1..k -> pool] : k \in 0..MaxPoints } :
        \A i, j \in 1..Len(s) : i # j => s[i].name # s[j].name }

RefPool ==
    { Pt("Sun", Deg(0)), Pt("Sun", Deg(10)),
      Pt("Moon", Deg(90)), Pt("Moon", Deg(94) + 8),
      Pt("Mars", Deg(182)) }

QueryPool ==
    { Pt("Sun", Deg(0)), Pt("Sun", Deg(90)), PtS("Sun", Deg(88), -1),
      PtS("Moon", Deg(3), 1), PtS("Moon", Deg(357), -1),
      PtS("Mars", Deg(20), -1), PtS("Mars", Deg(271), 0) }

FINE_ASPECTS ==
    << Asp("square", Deg(90), Deg(8) + 16, "#ff0000", "short"),
       Asp("conjunction", Deg(0), Deg(3), "transparent", "dashed"),
       Asp("opposition", Deg(180), Deg(10), "#ff0000", "solid") >>

SettingsPool == { NoSettings, EmptySettings, SettingsWith(FINE_ASPECTS), SettingsWith(<<>>) }

---------------------------------------------------------------------------
(* One AspectCalculator and its caller *)

Init ==
    /\ toPointsArg \in { Some(s) : s \in PointsOver(RefPool) } \cup { Null }
    /\ settingsArg \in SettingsPool
    /\ points \in { Some(s) : s \in PointsOver(QueryPool) } \cup { Null }
    /\ constructed = FALSE
    /\ toPoints = Null
    /\ settings = NoSettings
    /\ op = "none"
    /\ threw = FALSE
    /\ result = Null
    /\ fnArgs = [point |-> 0, toPoint |-> 0, aspect |-> DEFAULT_ASPECTS[1]]
    /\ resBool = FALSE
    /\ resNum = 0

Construct ==
    /\ ~constructed
    /\ LET c == constructor(toPointsArg, settingsArg)
       IN  /\ threw' = c.threw
           /\ constructed' = ~c.threw
           /\ toPoints' = c.toPoints
           /\ settings' = c.settings
    /\ op' = "constructor"
    /\ UNCHANGED <<toPointsArg, settingsArg, points, result, fnArgs, resBool, resNum>>

Radix ==
    /\ constructed
    /\ result' = radix(points, toPoints.entries, settings.ASPECTS)
    /\ op' = "radix"
    /\ threw' = FALSE
    /\ UNCHANGED <<toPointsArg, settingsArg, points, constructed, toPoints, settings,
                   fnArgs, resBool, resNum>>

Transit ==
    /\ constructed
    /\ result' = transit(points, toPoints.entries, settings.ASPECTS)
    /\ op' = "transit"
    /\ threw' = FALSE
    /\ UNCHANGED <<toPointsArg, settingsArg, points, constructed, toPoints, settings,
                   fnArgs, resBool, resNum>>

Next == Construct \/ Radix \/ Transit

Spec == Init /\ [][Next]_vars

---------------------------------------------------------------------------
(* Direct calls of the three geometry methods *)

FnToPoints ==
    { Deg(0), 1, Deg(4) + 50000, Deg(94) + 8, Deg(180), Deg(270), Deg(360) - 1 }

FnAspects ==
    { DEFAULT_ASPECTS[i] : i \in 1..Len(DEFAULT_ASPECTS) }
    \cup { Asp("square", Deg(90), Deg(9), "#ff0000", "short"),
           Asp("square", Deg(90), Deg(8) + 16, "#ff0000", "short"),
           Asp("conjunction", Deg(0), 0, "transparent", "dashed"),
           Asp("opposition", Deg(180), 2, "#ff0000", "solid") }

InitFn ==
    /\ toPointsArg = Some(<<>>)
    /\ settingsArg = NoSettings
    /\ points = Null
    /\ constructed = TRUE
    /\ toPoints = constructor(toPointsArg, settingsArg).toPoints
    /\ settings = constructor(toPointsArg, settingsArg).settings
    /\ op = "constructor"
    /\ threw = FALSE
    /\ result = Null
    \* every whole-degree point against FnToPoints and FnAspects, and every
    \* whole-degree point against itself for every whole aspect degree in [0, 180]
    /\ \/ \E p \in 0..359, t \in FnToPoints, a \in FnAspects :
              fnArgs = [point |-> Deg(p), toPoint |-> t, aspect |-> a]
       \/ \E p \in 0..359, d \in 0..180 :
              fnArgs = [point |-> Deg(p), toPoint |-> Deg(p),
                        aspect |-> Asp("aspect", Deg(d), Deg(8), "#000000", "solid")]
    /\ resBool = FALSE
    /\ resNum = 0

CallHasAspect ==
    /\ constructed
    /\ resBool' = hasAspect(fnArgs.point, fnArgs.toPoint, fnArgs.aspect)
    /\ op' = "hasAspect"
    /\ threw' = FALSE
    /\ UNCHANGED <<toPointsArg, settingsArg, points, constructed, toPoints, settings,
                   result, fnArgs, resNum>>

CallCalcPrecision ==
    /\ constructed
    /\ resNum' = calcPrecision(fnArgs.point, fnArgs.toPoint, fnArgs.aspect.degree)
    /\ op' = "calcPrecision"
    /\ threw' = FALSE
    /\ UNCHANGED <<toPointsArg, settingsArg, points, constructed, toPoints, settings,
                   result, fnArgs, resBool>>

CallIsTransitPointApproachingToAspect ==
    /\ constructed
    /\ resBool' = isTransitPointApproachingToAspect(fnArgs.aspect.degree, fnArgs.toPoint, fnArgs.point)
    /\ op' = "isTransitPointApproachingToAspect"
    /\ threw' = FALSE
    /\ UNCHANGED <<toPointsArg, settingsArg, points, constructed, toPoints, settings,
                   result, fnArgs, resNum>>

NextFn == CallHasAspect \/ CallCalcPrecision \/ CallIsTransitPointApproachingToAspect

SpecFn == InitFn /\ [][NextFn]_vars

---------------------------------------------------------------------------
(* The default catalog over the whole circle: one reference point and one
   transiting point, each at every whole degree *)

SpeedsOf(n, pos) == { Pt(n, pos), PtS(n, pos, 1), PtS(n, pos, -1) }

InitDefault ==
    /\ toPointsArg \in { Some(<<Pt("Sun", Deg(t))>>) : t \in 0..359 }
    /\ settingsArg = NoSettings
    /\ points \in { Some(<<q>>) : q \in UNION { SpeedsOf("Mars", Deg(p)) : p \in 0..359 } }
    /\ constructed = TRUE
    /\ toPoints = constructor(toPointsArg, settingsArg).toPoints
    /\ settings = constructor(toPointsArg, settingsArg).settings
    /\ op = "constructor"
    /\ threw = FALSE
    /\ result = Null
    /\ fnArgs = [point |-> 0, toPoint |-> 0, aspect |-> DEFAULT_ASPECTS[1]]
    /\ resBool = FALSE
    /\ resNum = 0

NextDefault == Transit

SpecDefault == InitDefault /\ [][NextDefault]_vars

---------------------------------------------------------------------------
(* Properties of radix and transit *)

\* a radix or transit call on a non-null Points object has returned
Returned(o) == op = o /\ ~points.nil /\ ~result.nil

\* the (point, toPoint, aspect) index triples of the current call
Triples ==
    (1..Len(points.entries)) \X (1..Len(toPoints.entries)) \X (1..Len(settings.ASPECTS))

\* record r was made from the triple x (names are unique within each object)
From(r, x) ==
    /\ r.point.name = points.entries[x[1]].name
    /\ r.toPoint.name = toPoints.entries[x[2]].name
    /\ r.aspect.name = settings.ASPECTS[x[3]].name

InOrb(x) ==
    hasAspect(points.entries[x[1]].position, toPoints.entries[x[2]].position,
              settings.ASPECTS[x[3]])

SameName(x) == points.entries[x[1]].name = toPoints.entries[x[2]].name

\* the records of the result made from the triple x
RecordsFrom(x) == { i \in 1..Len(result.entries) : From(result.entries[i], x) }

\* C1: radix returns exactly one record for every triple (point, toPoint,
\* aspect) whose two names differ and for which hasAspect holds, carrying
\* the two positions, and no other record; so no record of radix has
\* point.name equal to toPoint.name.
RadixExactlyTheMatchingTriples ==
    Returned("radix") =>
        /\ \A x \in Triples :
              Cardinality(RecordsFrom(x)) = IF ~SameName(x) /\ InOrb(x) THEN 1 ELSE 0
        /\ \A i \in 1..Len(result.entries) :
              /\ result.entries[i].point.name # result.entries[i].toPoint.name
              /\ \E x \in Triples :
                    /\ From(result.entries[i], x)
                    /\ result.entries[i].point.position = points.entries[x[1]].position
                    /\ result.entries[i].toPoint.position = toPoints.entries[x[2]].position

\* C1 witness: radix returned records although one name is in both objects,
\* at different positions that lie within an aspect's orb window
RadixSkippedSameName ==
    /\ Returned("radix")
    /\ Len(result.entries) > 0
    /\ \E x \in Triples :
          /\ SameName(x)
          /\ InOrb(x)
          /\ points.entries[x[1]].position # toPoints.entries[x[2]].position

\* C2: transit returns exactly one record for every triple (point, toPoint,
\* aspect) for which hasAspect holds, equal names included, and no other.
TransitExactlyTheMatchingTriples ==
    Returned("transit") =>
        /\ \A x \in Triples :
              Cardinality(RecordsFrom(x)) = IF InOrb(x) THEN 1 ELSE 0
        /\ \A i \in 1..Len(result.entries) :
              \E x \in Triples :
                    /\ From(result.entries[i], x)
                    /\ InOrb(x)
                    /\ result.entries[i].point.position = points.entries[x[1]].position
                    /\ result.entries[i].toPoint.position = toPoints.entries[x[2]].position

\* C2 witness: transit returned a record whose point and toPoint have the
\* same name
TransitEmittedSameName ==
    /\ Returned("transit")
    /\ \E i \in 1..Len(result.entries) :
          result.entries[i].point.name = result.entries[i].toPoint.name

\* the array before the final sort of the operation that ran
Unsorted ==
    IF op = "radix"
    THEN radixLoop(points.entries, toPoints.entries, settings.ASPECTS)
    ELSE transitLoop(points.entries, toPoints.entries, settings.ASPECTS)

Occurrences(s, x) == Cardinality({ i \in 1..Len(s) : s[i] = x })

\* C3: the result of radix and of transit is in ascending order of the
\* numeric (parsed, signed) precision, and holds the records of the unsorted
\* array, each as often as there.
SortedByPrecision ==
    (Returned("radix") \/ Returned("transit")) =>
        /\ \A i \in 1..(Len(result.entries) - 1) :
              parseFloat(result.entries[i].precision)
                  <= parseFloat(result.entries[i + 1].precision)
        /\ Len(result.entries) = Len(Unsorted)
        /\ \A i \in 1..Len(Unsorted) :
              Occurrences(result.entries, Unsorted[i]) = Occurrences(Unsorted, Unsorted[i])

\* C3 witness: transit returned an array that the sort had to reorder, an
\* approaching (negative) record first and a separating (positive) one last
SortReordered ==
    /\ Returned("transit")
    /\ Len(result.entries) >= 2
    /\ result.entries # Unsorted
    /\ parseFloat(result.entries[1].precision) < 0
    /\ parseFloat(result.entries[Len(result.entries)].precision) > 0

Approaching(x) ==
    isTransitPointApproachingToAspect(settings.ASPECTS[x[3]].degree,
        toPoints.entries[x[2]].position, points.entries[x[1]].position)

Retrograde(x) == points.entries[x[1]].hasSpeed /\ points.entries[x[1]].speed < 0

Unsigned(x) ==
    calcPrecision(points.entries[x[1]].position, toPoints.entries[x[2]].position,
                  settings.ASPECTS[x[3]].degree)

\* C4: the precision of a record of transit is calcPrecision of its triple,
\* negated once if the point is approaching and once more if its speed is
\* present and negative, printed by toFixed(4): it is negative only when
\* exactly one of the two holds, and not negative when both or neither holds.
TransitPrecisionSign ==
    Returned("transit") =>
        \A x \in Triples : \A i \in RecordsFrom(x) :
            /\ result.entries[i].precision =
                  toFixed4(IF Approaching(x) # Retrograde(x) THEN -Unsigned(x) ELSE Unsigned(x))
            /\ parseFloat(result.entries[i].precision) < 0 => Approaching(x) # Retrograde(x)
            /\ Approaching(x) = Retrograde(x) => parseFloat(result.entries[i].precision) >= 0

\* C4 witness: a record of an approaching and retrograde point, off exactness:
\* the two negations cancel and the precision is positive
DoubleNegation ==
    /\ Returned("transit")
    /\ \E x \in Triples : \E i \in RecordsFrom(x) :
          /\ Approaching(x)
          /\ Retrograde(x)
          /\ parseFloat(result.entries[i].precision) > 0

\* C5: only the constructor throws, and only for a null toPoints, leaving no
\* instance; radix and transit never throw and return an array, the empty
\* one for a null argument.
OnlyConstructorThrows ==
    /\ threw <=> (op = "constructor" /\ toPointsArg.nil)
    /\ threw => ~constructed
    /\ constructed => ~toPoints.nil
    /\ op \in {"radix", "transit"} =>
          /\ constructed
          /\ ~result.nil
          /\ points.nil => result.entries = <<>>

\* C5 witness: transit was called with null on an instance that has
\* reference points, and returned the empty array
TransitOfNull ==
    /\ op = "transit"
    /\ points.nil
    /\ Len(toPoints.entries) > 0
    /\ result = Some(<<>>)

\* C7 as stated: the absolute numeric precision of every record is within
\* [0, orbit/2] of its aspect, and the precision of a radix record is not
\* negative.
PrecisionWithinHalfOrbit ==
    (Returned("radix") \/ Returned("transit")) =>
        \A i \in 1..Len(result.entries) :
            /\ 2 * 10 * result.entries[i].precision.digits <= result.entries[i].aspect.orbit
            /\ op = "radix" => parseFloat(result.entries[i].precision) >= 0

\* C7 amended: the absolute numeric precision of every record is within
\* [0, orbit/2 + 0.00005] (toFixed(4) rounds a distance of at most orbit/2),
\* within [0, orbit/2] when orbit/2 is a multiple of 0.0001, and the precision
\* of a radix record is not negative.
PrecisionWithinRoundedHalfOrbit ==
    (Returned("radix") \/ Returned("transit")) =>
        \A i \in 1..Len(result.entries) :
            /\ 2 * 10 * result.entries[i].precision.digits
                  <= result.entries[i].aspect.orbit + 10
            /\ result.entries[i].aspect.orbit % 20 = 0 =>
                  2 * 10 * result.entries[i].precision.digits
                      <= result.entries[i].aspect.orbit
            /\ op = "radix" => parseFloat(result.entries[i].precision) >= 0

\* C7 witness: a record whose printed precision is above orbit/2
RoundedAboveHalfOrbit ==
    /\ Returned("radix")
    /\ \E i \in 1..Len(result.entries) :
          2 * 10 * result.entries[i].precision.digits > result.entries[i].aspect.orbit

---------------------------------------------------------------------------
(* Properties of the geometry methods *)

Min(a, b) == IF a <= b THEN a ELSE b

\* the shorter arc between two positions of [0, 360)
ShorterArc(a, b) == Min(Abs(a - b), Deg(360) - Abs(a - b))

\* C6: hasAspect(point, toPoint, aspect) is true exactly when
\* degree - orbit/2 <= gap <= degree + orbit/2, gap being the shorter arc
\* between the two positions, both bounds included.
HasAspectIsClosedWindow ==
    op = "hasAspect" =>
        (resBool <=>
            /\ 2 * fnArgs.aspect.degree - fnArgs.aspect.orbit
                  <= 2 * ShorterArc(fnArgs.point, fnArgs.toPoint)
            /\ 2 * ShorterArc(fnArgs.point, fnArgs.toPoint)
                  <= 2 * fnArgs.aspect.degree + fnArgs.aspect.orbit)

\* C6 witness: hasAspect returned true for a gap that is exactly
\* degree + orbit/2, orbit/2 not a whole degree, the raw difference above 180
UpperBoundMatches ==
    /\ op = "hasAspect"
    /\ resBool
    /\ Abs(fnArgs.point - fnArgs.toPoint) > Deg(180)
    /\ fnArgs.aspect.orbit % Deg(2) # 0
    /\ 2 * ShorterArc(fnArgs.point, fnArgs.toPoint)
          = 2 * fnArgs.aspect.degree + fnArgs.aspect.orbit

\* C8 as stated: the gap of hasAspect and calcPrecision is the same with the
\* two angles swapped and with 360 degrees added to either, and calcPrecision
\* is symmetric in its two positions and never negative.
GapInvariantUnderSwapAndFullTurn ==
    op = "calcPrecision" =>
        /\ gap(fnArgs.point, fnArgs.toPoint) = gap(fnArgs.toPoint, fnArgs.point)
        /\ gap(fnArgs.point, fnArgs.toPoint) = gap(fnArgs.point + Deg(360), fnArgs.toPoint)
        /\ gap(fnArgs.point, fnArgs.toPoint) = gap(fnArgs.point, fnArgs.toPoint + Deg(360))
        /\ resNum = calcPrecision(fnArgs.toPoint, fnArgs.point, fnArgs.aspect.degree)
        /\ resNum >= 0

\* C9 as stated: isTransitPointApproachingToAspect returns false whenever
\* point equals toPoint, for every aspect degree in [0, 180].
EqualPositionsNeverApproaching ==
    (op = "isTransitPointApproachingToAspect" /\ fnArgs.point = fnArgs.toPoint) =>
        ~resBool

\* the transiting point of the current call, and its distance from exactness
\* for record r now and after it has moved one degree forward
Transiting == points.entries[1]

Now(r) == calcPrecision(Transiting.position, r.toPoint.position, r.aspect.degree)

Later(r) ==
    calcPrecision((Transiting.position + Deg(1)) % Deg(360), r.toPoint.position, r.aspect.degree)

\* C10: default catalog, whole-degree positions: a record of transit at least
\* one degree off exactness has a negative precision exactly when moving the
\* transiting point one degree forward brings it nearer to exactness, and a
\* positive one exactly when that takes it further, for a point whose speed is
\* absent or positive; for a point of negative speed the sign is the opposite.
SignTellsApproach ==
    Returned("transit") =>
        \A i \in 1..Len(result.entries) :
            LET r == result.entries[i]
                retro == Transiting.hasSpeed /\ Transiting.speed < 0
            IN  r.precision.digits >= 10000 =>
                    /\ parseFloat(r.precision) < 0
                          <=> IF retro THEN Later(r) > Now(r) ELSE Later(r) < Now(r)
                    /\ parseFloat(r.precision) > 0
                          <=> IF retro THEN Later(r) < Now(r) ELSE Later(r) > Now(r)

\* C10 witness: an approaching record, one degree or more off exactness, of a
\* direct point whose position and the reference position straddle 0/360
ApproachingAcrossWrap ==
    /\ Returned("transit")
    /\ ~Transiting.hasSpeed
    /\ \E i \in 1..Len(result.entries) :
          /\ result.entries[i].precision.digits >= 10000
          /\ parseFloat(result.entries[i].precision) < 0
          /\ Abs(Transiting.position - result.entries[i].toPoint.position) > Deg(180)

====
